---- MODULE Spec2Model ----
(***************************************************************************)
(* State-machine model of ipfx/nwb_reader.py: NWB version detection, the   *)
(* reader factory, and the three dialect readers (NwbXReader,              *)
(* NwbPipelineReader, NwbMiesReader).                                      *)
(*                                                                         *)
(* Python strings that the code inspects (split, prefix match, suffix      *)
(* slice, int()) are sequences of one-character strings.  A float array    *)
(* is a record [m, e] standing for the samples m[i] * 10^e, so that the    *)
(* 1e3 / 1e12 rescales are exact.                                          *)
(***************************************************************************)
EXTENDS Integers, Sequences, FiniteSets, TLC

VARIABLES file, reader, op, arg, result, handles

vars == <<file, reader, op, arg, result, handles>>

----------------------------------------------------------------------------
(* Bounds *)
MaxLen == 2
MaxSeries == 3
MaxInfo == 3

----------------------------------------------------------------------------
(* Python string primitives *)

StartsWith(s, p) == Len(s) >= Len(p) /\ SubSeq(s, 1, Len(p)) = p

\* s[-k:]
LastChars(s, k) == IF Len(s) <= k THEN s ELSE SubSeq(s, Len(s) - k + 1, Len(s))

\* s[:-k]
DropLastChars(s, k) == IF Len(s) <= k THEN <<>> ELSE SubSeq(s, 1, Len(s) - k)

\* s.split(sep): always at least one token
RECURSIVE Split(_, _)
Split(s, sep) ==
    IF \A i \in 1..Len(s) : s[i] # sep
    THEN <<s>>
    ELSE LET i == CHOOSE k \in 1..Len(s) :
                      s[k] = sep /\ \A j \in 1..(k - 1) : s[j] # sep
         IN  <<SubSeq(s, 1, i - 1)>> \o Split(SubSeq(s, i + 1, Len(s)), sep)

DigitChars == {"0", "1", "2", "3", "4", "5", "6", "7", "8", "9"}

DigitVal(c) ==
    CASE c = "0" -> 0 [] c = "1" -> 1 [] c = "2" -> 2 [] c = "3" -> 3
      [] c = "4" -> 4 [] c = "5" -> 5 [] c = "6" -> 6 [] c = "7" -> 7
      [] c = "8" -> 8 [] c = "9" -> 9

DigitChar(d) ==
    CASE d = 0 -> "0" [] d = 1 -> "1" [] d = 2 -> "2" [] d = 3 -> "3"
      [] d = 4 -> "4" [] d = 5 -> "5" [] d = 6 -> "6" [] d = 7 -> "7"
      [] d = 8 -> "8" [] d = 9 -> "9"

\* int(tok) succeeds on a non-empty string of decimal digits
IsInt(tok) == Len(tok) > 0 /\ \A i \in 1..Len(tok) : tok[i] \in DigitChars

RECURSIVE IntVal(_)
IntVal(tok) ==
    IF Len(tok) = 0 THEN 0
    ELSE 10 * IntVal(SubSeq(tok, 1, Len(tok) - 1)) + DigitVal(tok[Len(tok)])

\* "%d" % n for n >= 0
RECURSIVE DecStr(_)
DecStr(n) == IF n < 10 THEN <<DigitChar(n)>>
             ELSE DecStr(n \div 10) \o <<DigitChar(n % 10)>>

\* "%05d" % n
RECURSIVE ZeroPad(_, _)
ZeroPad(s, w) == IF Len(s) >= w THEN s ELSE ZeroPad(<<"0">> \o s, w)

----------------------------------------------------------------------------
(* String literals used by the code *)

S_version   == <<"v", "e", "r", "s", "i", "o", "n">>
S_NWB1      == <<"N", "W", "B", "-", "1">>
S_2         == <<"2">>
S_data      == <<"d", "a", "t", "a">>
S_Sweep     == <<"S", "w", "e", "e", "p">>
S_DA_0      == <<"_", "D", "A", "_", "0">>
S_SweepU    == <<"S", "w", "e", "e", "p", "_">>
S_ExpU      == <<"E", "x", "p", "e", "r", "i", "m", "e", "n", "t", "_">>
S_dataU     == <<"d", "a", "t", "a", "_">>
S_AD0       == <<"_", "A", "D", "0">>
S_DA0       == <<"_", "D", "A", "0">>

----------------------------------------------------------------------------
(* Outcomes of a call: a returned value or a raised exception, together    *)
(* with the number of file handles the call opened and closed.             *)

None == [t |-> "none"]

Ret(v)   == [status |-> "ok",  err |-> "",  value |-> v,    opened |-> 0, closed |-> 0]
Raise(e) == [status |-> "err", err |-> e,   value |-> None, opened |-> 0, closed |-> 0]

\* handles opened and closed by a nested call carry over to the caller
AddHandles(r, inner) ==
    [r EXCEPT !.opened = @ + inner.opened, !.closed = @ + inner.closed]

\* variant: open()/close() around the body without try/finally, so that a
\* raise inside the body skips the close
With_no_finally(body) ==
    IF body.status = "err" THEN [body EXCEPT !.opened = @ + 1]
    ELSE [body EXCEPT !.opened = @ + 1, !.closed = @ + 1]

\* `with h5py.File(...) as f:` / `with NWBHDF5IO(...) as io:` around a body:
\* the handle is opened on entry and closed on return and on raise alike
With(body) == [body EXCEPT !.opened = @ + 1, !.closed = @ + 1]

\* exceptions, named as in the error taxonomy, raised at the quoted sites
KeyError            == "KeyError"
IndexError          == "IndexError"
TypeError           == "TypeError"
UnboundLocalError   == "UnboundLocalError"
UnsupportedVersion  == "ValueError: Unsupported or unknown NWB major version"
UnknownDialect      == "ValueError: Unknown sweep naming convention"
UnrecognizedSource  == "AssertionError: raw data source"
SweepNotFound       == "ValueError: No TimeSeries found for sweep number"
UnexpectedChannel   == "ValueError: Unexpected channel number"
DuplicateResponseSeries == "ValueError: Found multiple response TimeSeries"
DuplicateStimulusSeries == "ValueError: Found multiple stimulus TimeSeries"
UnexpectedSeriesType    == "ValueError: Unexpected TimeSeries"
UnrecognizedUnit    == "ValueError: Unit not recognized from TimeSeries"
MissingStimulus     == "ValueError: Could not find one stimulus TimeSeries"
MissingResponse     == "ValueError: Could not find one response TimeSeries"
LengthMismatch      == "AssertionError: Stimulus and response have a different length"
UnknownStimulusUnit == "ValueError: Unknown stimulus unit"
InvalidSweepRange   == "AssertionError: index range of the full sweep does not start at 0"
MiesUnrecognizedUnit == "AssertionError: Stimulus time series unit not recognized"
UnknownClampMode    == "ValueError: Unknown Clamp Mode"

----------------------------------------------------------------------------
(* get_nwb_version *)

\* a stored value is absent, None, a string or an array of strings; Num is a
\* sweep number passed as an argument
Absent == [t |-> "absent"]
Str(s) == [t |-> "str", v |-> s]
Arr(a) == [t |-> "arr", v |-> a]
Num(n) == [t |-> "num", v |-> n]

UnknownVersion == [major |-> "None", full |-> None]

\* re.match(pattern, value) on a value that is not None
ReMatch(prefix, x) ==
    IF x.t = "str" THEN Ret(StartsWith(x.v, prefix)) ELSE Raise(TypeError)

get_nwb_version(f) ==
    With(
      IF f.nwb_version_entry.t # "absent"
      THEN LET raw == f.nwb_version_entry IN
           IF raw.t = "arr" /\ Len(raw.v) = 0 THEN Raise(IndexError)
           ELSE LET nwb_version == IF raw.t = "arr" THEN Str(raw.v[1]) ELSE raw IN
                IF nwb_version.t = "none" THEN Ret(UnknownVersion)
                ELSE LET m == ReMatch(S_NWB1, nwb_version) IN
                     IF m.status = "err" THEN m
                     ELSE IF m.value THEN Ret([major |-> "1", full |-> nwb_version])
                     ELSE Ret(UnknownVersion)
      ELSE IF f.nwb_version_attr.t # "absent"
      THEN LET nwb_version == f.nwb_version_attr IN
           IF nwb_version.t = "none" THEN Ret(UnknownVersion)
           ELSE LET m == ReMatch(S_2, nwb_version) IN
                IF m.status = "err" THEN m
                ELSE IF m.value THEN Ret([major |-> "2", full |-> nwb_version])
                ELSE Ret(UnknownVersion)
      ELSE Ret(UnknownVersion))

----------------------------------------------------------------------------
(* create_nwb_reader *)

\* variant: the naming convention is read off the last sweep name
sweep_naming_convention_last(f) ==
    With(
      IF f.acquisition.t = "absent" THEN Raise(KeyError)
      ELSE IF Len(f.acquisition.v) = 0 THEN Raise(IndexError)
      ELSE Ret(Split(f.acquisition.v[Len(f.acquisition.v)].name, "_")[1]))

\* sweep_names[0].split('_')[0] inside the `with` block
sweep_naming_convention(f) ==
    With(
      IF f.acquisition.t = "absent" THEN Raise(KeyError)
      ELSE IF Len(f.acquisition.v) = 0 THEN Raise(IndexError)
      ELSE Ret(Split(f.acquisition.v[1].name, "_")[1]))

create_nwb_reader(f) ==
    LET nwb_version == get_nwb_version(f) IN
    IF nwb_version.status = "err" THEN nwb_version
    ELSE IF nwb_version.value.major = "2"
    THEN AddHandles(Ret("NwbXReader"), nwb_version)
    ELSE IF nwb_version.value.major = "1"
    THEN LET conv == sweep_naming_convention(f) IN
         IF conv.status = "err" THEN AddHandles(conv, nwb_version)
         ELSE IF conv.value = S_data
         THEN AddHandles(AddHandles(Ret("NwbMiesReader"), conv), nwb_version)
         ELSE IF conv.value = S_Sweep
         THEN AddHandles(AddHandles(Ret("NwbPipelineReader"), conv), nwb_version)
         ELSE AddHandles(AddHandles(Raise(UnknownDialect), conv), nwb_version)
    ELSE AddHandles(Raise(UnsupportedVersion), nwb_version)

----------------------------------------------------------------------------
(* NwbReader: the shared methods *)

\* nwb_major_version passed to NwbReader.__init__ by each subclass
nwb_major_version(rd) == IF rd = "NwbXReader" THEN "2" ELSE "1"

HasEntry(entries, name) == \E i \in 1..Len(entries) : entries[i].name = name

Entry(entries, name) ==
    entries[CHOOSE i \in 1..Len(entries) : entries[i].name = name]

\* f["acquisition/timeseries"][sweep_name]
sweep_ts(f, sweep_name) ==
    IF f.acquisition.t = "absent" THEN Raise(KeyError)
    ELSE IF ~HasEntry(f.acquisition.v, sweep_name) THEN Raise(KeyError)
    ELSE Ret(Entry(f.acquisition.v, sweep_name))

get_sweep_attrs(rd, f, sweep_name) ==
    With(
      LET ts == sweep_ts(f, sweep_name) IN
      IF ts.status = "err" THEN ts
      ELSE LET attrs == ts.value.attrs
               kids  == ts.value.children
               added == IF nwb_major_version(rd) = "2"
                        THEN DOMAIN kids \ {"data", "electrode"}
                        ELSE {}
           IN  Ret([k \in DOMAIN attrs \cup added |->
                       IF k \in added THEN kids[k] ELSE attrs[k]]))

get_sweep_names(f) ==
    With(
      IF f.acquisition.t = "absent" THEN Raise(KeyError)
      ELSE Ret([i \in 1..Len(f.acquisition.v) |-> f.acquisition.v[i].name]))

\* the scan `for i in range(len(info)): if info[i] == 'version'`
HasVersionKey(info) == \E i \in 1..Len(info) : info[i] = S_version

VersionKeyIndex(info) ==
    CHOOSE i \in 1..Len(info) :
        info[i] = S_version /\ \A j \in 1..(i - 1) : info[j] # S_version

\* the `with` block of get_pipeline_version: the value stored after the
\* first 'version', None when the loop leaves `version` unassigned
pipeline_version_scan(f) ==
    With(
      IF f.general.t = "absent" THEN Raise(KeyError)
      ELSE IF f.general.generated_by.t = "absent" THEN Ret(None)
      ELSE LET info == f.general.generated_by.v IN
           IF ~HasVersionKey(info) THEN Ret(None)
           ELSE LET i == VersionKeyIndex(info) IN
                IF i + 1 > Len(info) THEN Raise(IndexError)
                ELSE Ret(Str(info[i + 1])))

\* the try block around it catches everything raised up to `minor = int(...)`
\* and answers (0, 0); `return major, minor` comes after the try block
get_pipeline_version(f) ==
    LET scan == pipeline_version_scan(f) IN
    IF scan.status = "err" THEN AddHandles(Ret(<<0, 0>>), scan)
    ELSE IF scan.value.t = "none" THEN AddHandles(Ret(<<0, 0>>), scan)
    ELSE LET toks == Split(scan.value.v, ".") IN
         IF Len(toks) >= 2
         THEN IF IsInt(toks[1]) /\ IsInt(toks[2])
              THEN AddHandles(Ret(<<IntVal(toks[1]), IntVal(toks[2])>>), scan)
              ELSE AddHandles(Ret(<<0, 0>>), scan)
         ELSE AddHandles(Raise(UnboundLocalError), scan)

----------------------------------------------------------------------------
(* get_stim_code *)

\* str(stim_code_raw[0]) for an array, str(stim_code_raw) otherwise
stim_code_str(raw) ==
    IF raw.t = "arr"
    THEN IF Len(raw.v) = 0 THEN Raise(IndexError) ELSE Ret(raw.v[1])
    ELSE Ret(raw.v)

trim_DA_0(stim_code) ==
    IF LastChars(stim_code, 5) = S_DA_0 THEN DropLastChars(stim_code, 5)
    ELSE stim_code

\* the body shared verbatim by NwbPipelineReader and NwbMiesReader, which
\* differ in the name of the child they look for
h5_get_stim_code(f, sweep_name, stimulus_description) ==
    With(
      LET ts == sweep_ts(f, sweep_name) IN
      IF ts.status = "err" THEN ts
      ELSE IF stimulus_description \in DOMAIN ts.value.children
      THEN LET code == stim_code_str(ts.value.children[stimulus_description]) IN
           IF code.status = "err" THEN code
           ELSE Ret(Str(trim_DA_0(code.value)))
      ELSE Raise(UnboundLocalError))

NwbPipelineReader_get_stim_code(f, sweep_name) ==
    h5_get_stim_code(f, sweep_name, "aibs_stimulus_description")

NwbMiesReader_get_stim_code(f, sweep_name) ==
    h5_get_stim_code(f, sweep_name, "stimulus_description")

NwbXReader_get_stim_code(f, sweep_name) ==
    LET attrs == get_sweep_attrs("NwbXReader", f, sweep_name) IN
    IF attrs.status = "err" THEN attrs
    ELSE IF "stimulus_description" \in DOMAIN attrs.value
    THEN AddHandles(Ret(attrs.value["stimulus_description"]), attrs)
    ELSE AddHandles(Raise(KeyError), attrs)

get_stim_code(rd, f, sweep_name) ==
    CASE rd = "NwbXReader"        -> NwbXReader_get_stim_code(f, sweep_name)
      [] rd = "NwbPipelineReader" -> NwbPipelineReader_get_stim_code(f, sweep_name)
      [] rd = "NwbMiesReader"     -> NwbMiesReader_get_stim_code(f, sweep_name)

----------------------------------------------------------------------------
(* Sample arrays and units *)

F64(m)        == [t |-> "f64", m |-> m, e |-> 0]
ALen(a)       == Len(a.m)
\* a * c for a scalar conversion factor c
AMul(a, c)    == [a EXCEPT !.m = [i \in 1..Len(a.m) |-> a.m[i] * c]]
\* a *= 1e<k>,
AScale10(a, k) == [a EXCEPT !.e = @ + k]

S_A == <<"A">>
S_V == <<"V">>

get_long_unit_name(unit) ==
    IF StartsWith(unit, S_A) THEN Ret("Amps")
    ELSE IF StartsWith(unit, S_V) THEN Ret("Volts")
    ELSE Raise(UnrecognizedUnit)

----------------------------------------------------------------------------
(* NwbXReader.get_sweep_data *)

S_PatchMaster == <<"P", "a", "t", "c", "h", "M", "a", "s", "t", "e", "r">>
S_Clampex     == <<"C", "l", "a", "m", "p", "e", "x">>

getRawDataSourceType(experiment_description) ==
    IF StartsWith(experiment_description, S_PatchMaster) THEN "dat"
    ELSE IF StartsWith(experiment_description, S_Clampex) THEN "abf"
    ELSE "unknown"

\* isinstance(s, (VoltageClampSeries, CurrentClampSeries, IZeroClampSeries))
ResponseKinds == {"VoltageClampSeries", "CurrentClampSeries", "IZeroClampSeries"}
\* isinstance(s, (VoltageClampStimulusSeries, CurrentClampStimulusSeries))
StimulusKinds == {"VoltageClampStimulusSeries", "CurrentClampStimulusSeries"}

XLoopInit == [response |-> None, stimulus |-> None, stimulus_unit |-> "",
              stimulus_rate |-> 0, stimulus_index_range |-> <<0, 0>>]

\* variant: the loop without the `response is not None` check, so that a
\* later response series overwrites an earlier one
RECURSIVE x_series_loop_overwrite(_, _, _, _)
x_series_loop_overwrite(series, i, abf, st) ==
    IF i > Len(series) THEN Ret(st)
    ELSE LET s == series[i] IN
         IF abf /\ s.number \notin {1, 5} THEN Raise(UnexpectedChannel)
         ELSE IF abf /\ s.number = 5 THEN x_series_loop_overwrite(series, i + 1, abf, st)
         ELSE IF s.kind \in ResponseKinds
         THEN x_series_loop_overwrite(series, i + 1, abf,
                  [st EXCEPT !.response = AMul(s.data, s.conversion)])
         ELSE IF s.kind \in StimulusKinds
         THEN IF st.stimulus.t # "none" THEN Raise(DuplicateStimulusSeries)
              ELSE LET u == get_long_unit_name(s.unit) IN
                   IF u.status = "err" THEN u
                   ELSE x_series_loop_overwrite(series, i + 1, abf,
                            [st EXCEPT !.stimulus = AMul(s.data, s.conversion),
                                       !.stimulus_unit = u.value,
                                       !.stimulus_rate = s.rate,
                                       !.stimulus_index_range = <<0, ALen(s.data) - 1>>])
         ELSE Raise(UnexpectedSeriesType)

\* `for s in series:` from position i on, with the locals in st
RECURSIVE x_series_loop(_, _, _, _)
x_series_loop(series, i, abf, st) ==
    IF i > Len(series) THEN Ret(st)
    ELSE LET s == series[i] IN
         IF abf /\ s.number \notin {1, 5} THEN Raise(UnexpectedChannel)
         ELSE IF abf /\ s.number = 5 THEN x_series_loop(series, i + 1, abf, st)
         ELSE IF s.kind \in ResponseKinds
         THEN IF st.response.t # "none" THEN Raise(DuplicateResponseSeries)
              ELSE x_series_loop(series, i + 1, abf,
                       [st EXCEPT !.response = AMul(s.data, s.conversion)])
         ELSE IF s.kind \in StimulusKinds
         THEN IF st.stimulus.t # "none" THEN Raise(DuplicateStimulusSeries)
              ELSE LET u == get_long_unit_name(s.unit) IN
                   IF u.status = "err" THEN u
                   ELSE x_series_loop(series, i + 1, abf,
                            [st EXCEPT !.stimulus = AMul(s.data, s.conversion),
                                       !.stimulus_unit = u.value,
                                       !.stimulus_rate = s.rate,
                                       !.stimulus_index_range = <<0, ALen(s.data) - 1>>])
         ELSE Raise(UnexpectedSeriesType)

\* sweep_number is an int in every call made here, so the isinstance check
\* that opens the method passes
NwbXReader_get_sweep_data(f, sweep_number) ==
    With(
      LET rawDataSourceType == getRawDataSourceType(f.nwb.experiment_description) IN
      IF rawDataSourceType = "unknown" THEN Raise(UnrecognizedSource)
      ELSE LET series == f.nwb.sweep_table[sweep_number] IN
           IF series.t = "none" THEN Raise(SweepNotFound)
           ELSE LET r == x_series_loop(series.v, 1, rawDataSourceType = "abf", XLoopInit) IN
                IF r.status = "err" THEN r
                ELSE IF r.value.stimulus.t = "none" THEN Raise(MissingStimulus)
                ELSE IF r.value.response.t = "none" THEN Raise(MissingResponse)
                ELSE IF ALen(r.value.stimulus) # ALen(r.value.response)
                THEN Raise(LengthMismatch)
                ELSE Ret([stimulus      |-> r.value.stimulus,
                          response      |-> r.value.response,
                          stimulus_unit |-> r.value.stimulus_unit,
                          index_range   |-> r.value.stimulus_index_range,
                          sampling_rate |-> r.value.stimulus_rate]))

----------------------------------------------------------------------------
(* NwbPipelineReader.get_sweep_data *)

\* variant: the gate written with `minor >= 0`, which lets 1.0 through
conversion_applies_from_1_0(major, minor) == (major = 1 /\ minor >= 0) \/ major > 1

\* (major == 1 and minor > 0) or major > 1
conversion_applies(major, minor) == (major = 1 /\ minor > 0) \/ major > 1

\* variant: the experiment's stop index computed without the `- 1`
experiment_index_range_off_by_one(f, sweep_number, sweep_index_range) ==
    LET name == S_ExpU \o DecStr(sweep_number) IN
    IF ~HasEntry(f.epochs, name) THEN sweep_index_range
    ELSE LET exp == Entry(f.epochs, name) IN
         IF "idx_start" \notin DOMAIN exp.stimulus THEN sweep_index_range
         ELSE IF "count" \notin DOMAIN exp.stimulus THEN sweep_index_range
         ELSE <<exp.stimulus.idx_start,
                exp.stimulus.idx_start + exp.stimulus.count>>

\* the try/except KeyError around the Experiment_<n> lookup
experiment_index_range(f, sweep_number, sweep_index_range) ==
    LET name == S_ExpU \o DecStr(sweep_number) IN
    IF ~HasEntry(f.epochs, name) THEN sweep_index_range
    ELSE LET exp == Entry(f.epochs, name) IN
         IF "idx_start" \notin DOMAIN exp.stimulus THEN sweep_index_range
         ELSE IF "count" \notin DOMAIN exp.stimulus THEN sweep_index_range
         ELSE <<exp.stimulus.idx_start,
                exp.stimulus.idx_start + exp.stimulus.count - 1>>

\* the body from the unit lookup on, given the (possibly converted) arrays
pipeline_sweep_record(f, sweep_number, swp, stimulus0, response0) ==
    LET u == IF swp.stimulus.unit.t # "absent"
             THEN get_long_unit_name(swp.stimulus.unit.v)
             ELSE Ret("Unknown")
    IN
    IF u.status = "err" THEN u
    ELSE IF u.value \notin {"Amps", "Volts"} THEN Raise(UnknownStimulusUnit)
    ELSE LET response == IF u.value = "Amps" THEN AScale10(response0, 3)
                         ELSE AScale10(response0, 12)
             stimulus == IF u.value = "Amps" THEN AScale10(stimulus0, 12)
                         ELSE AScale10(stimulus0, 3)
             swp_idx_start == swp.stimulus.idx_start
             swp_idx_stop  == swp_idx_start + swp.stimulus.count - 1
             sweep_index_range == <<swp_idx_start, swp_idx_stop>>
             index_range == experiment_index_range(f, sweep_number, sweep_index_range)
         IN  IF sweep_index_range[1] # 0 THEN Raise(InvalidSweepRange)
             ELSE Ret([stimulus      |-> stimulus,
                       response      |-> response,
                       stimulus_unit |-> u.value,
                       index_range   |-> index_range,
                       sampling_rate |-> swp.stimulus.rate])

NwbPipelineReader_get_sweep_data(f, sweep_number) ==
    LET name == S_SweepU \o DecStr(sweep_number) IN
    IF ~HasEntry(f.epochs, name) THEN With(Raise(KeyError))
    ELSE LET swp == Entry(f.epochs, name)
             pv  == get_pipeline_version(f)
         IN  IF pv.status = "err" THEN With(pv)
             ELSE With(AddHandles(
                    IF conversion_applies(pv.value[1], pv.value[2])
                    THEN pipeline_sweep_record(f, sweep_number, swp,
                             AMul(swp.stimulus.data, swp.stimulus.conversion),
                             AMul(swp.response.data, swp.response.conversion))
                    ELSE pipeline_sweep_record(f, sweep_number, swp,
                             swp.stimulus.data, swp.response.data),
                    pv))

----------------------------------------------------------------------------
(* NwbMiesReader.get_sweep_data *)

\* ipfx.stim_features: the epoch routines answer with a sub-range of the
\* recorded waveform, or fail on an empty one; which sub-range is theirs
\* to decide, so each is the set of outcomes the reader may be handed
EpochOutcomes(n) ==
    IF n = 0 THEN {Raise(IndexError)}
    ELSE {Ret(<<a, b>>) : a \in {0}, b \in 0..(n - 1)}
           \cup {Ret(<<a, b>>) : a \in 0..(n - 1), b \in {n - 1}}

get_experiment_epoch(stimulus, response, hz) == EpochOutcomes(ALen(response))

get_sweep_epoch(response) == EpochOutcomes(ALen(response))

mies_unit_str(unit) ==
    IF unit.t = "absent" THEN Ret("Unknown")
    ELSE IF StartsWith(unit.v, S_A) THEN Ret("Amps")
    ELSE IF StartsWith(unit.v, S_V) THEN Ret("Volts")
    ELSE Raise(MiesUnrecognizedUnit)

\* the set of outcomes of the call, one per answer of the epoch routine
NwbMiesReader_get_sweep_data(f, sweep_number) ==
    LET ad == S_dataU \o ZeroPad(DecStr(sweep_number), 5) \o S_AD0
        da == S_dataU \o ZeroPad(DecStr(sweep_number), 5) \o S_DA0
        rsp == sweep_ts(f, ad)
    IN
    IF rsp.status = "err" THEN {With(rsp)}
    ELSE IF ~HasEntry(f.presentation, da) THEN {With(Raise(KeyError))}
    ELSE LET sweep_response == rsp.value
             sweep_stimulus == Entry(f.presentation, da)
             response == sweep_response.children.data
             hz       == sweep_response.children.starting_time.rate
             stimulus == sweep_stimulus.data
             u        == mies_unit_str(sweep_stimulus.unit)
             epochs   == IF "CurrentClampSeries" \in sweep_response.attrs.ancestry
                         THEN get_experiment_epoch(stimulus, response, hz)
                         ELSE IF "VoltageClampSeries" \in sweep_response.attrs.ancestry
                         THEN get_sweep_epoch(response)
                         ELSE {Raise(UnknownClampMode)}
         IN  IF u.status = "err" THEN {With(u)}
             ELSE {With(IF e.status = "err" THEN e
                        ELSE Ret([stimulus      |-> stimulus,
                                  response      |-> response,
                                  sampling_rate |-> hz,
                                  stimulus_unit |-> u.value,
                                  index_range   |-> e.value])) : e \in epochs}

----------------------------------------------------------------------------
(* Files *)

\* sequences over S of length at most n
SeqsUpTo(S, n) == UNION {[1..k -> S] : k \in 0..n}

\* the ramp 1, 2, ..., n as stored samples
Ramp(n) == F64([i \in 1..n |-> i])

M_NWB10 == <<"N", "W", "B", "-", "1", ".", "0">>
M_NWB2  == <<"N", "W", "B", "-", "2">>
M_20    == <<"2", ".", "0">>
M_10    == <<"1", ".", "0">>

N_data1   == <<"d", "a", "t", "a", "_", "0", "0", "0", "0", "1", "_", "A", "D", "0">>
N_dataDA1 == <<"d", "a", "t", "a", "_", "0", "0", "0", "0", "1", "_", "D", "A", "0">>
N_data    == <<"d", "a", "t", "a">>
N_udata   == <<"_", "d", "a", "t", "a">>
N_Sweep1  == <<"S", "w", "e", "e", "p", "_", "1">>
N_Sweepy1 == <<"S", "w", "e", "e", "p", "y", "_", "1">>
N_index0  == <<"i", "n", "d", "e", "x", "_", "0">>
N_bogus   == <<"n", "o">>

SweepNumbers == {1, 2}

\* what a file may store as its version marker
Markers == {Absent, None, Str(M_NWB10), Str(M_NWB2), Str(M_20), Str(M_10),
            Arr(<<M_NWB10>>), Arr(<<M_20>>), Arr(<<>>)}

\* an acquisition entry: its HDF5 attributes and its children
TsEntry(name, attrs, children) ==
    [name |-> name, attrs |-> attrs, children |-> children]

PlainEntry(name) ==
    TsEntry(name, [ancestry |-> {"TimeSeries", "PatchClampSeries", "CurrentClampSeries"}],
            [data |-> Ramp(MaxLen), starting_time |-> [rate |-> 200]])

Group(v) == [t |-> "group", v |-> v]

Acquisitions ==
    {Absent, Group(<<>>)}
      \cup {Group(<<PlainEntry(n)>>) :
               n \in {N_data1, N_data, N_udata, N_Sweep1, N_Sweepy1, N_index0}}
      \cup {Group(<<PlainEntry(N_data1), PlainEntry(N_Sweep1)>>),
            Group(<<PlainEntry(N_Sweep1), PlainEntry(N_data1)>>)}

NoGeneral == Absent
General(generated_by) == [t |-> "group", generated_by |-> generated_by]

P_11   == <<"1", ".", "1">>
P_10   == <<"1", ".", "0">>
P_20   == <<"2", ".", "0">>
P_09   == <<"0", ".", "9">>
P_1    == <<"1">>
P_1x   == <<"1", ".", "x">>
P_name == <<"n", "a", "m", "e">>

ProvTokens == {S_version, P_11, P_10, P_20, P_1, P_1x, P_name}

Provenances ==
    {NoGeneral, General(Absent)}
      \cup {General(Arr(info)) : info \in SeqsUpTo(ProvTokens, MaxInfo)}

\* a time series of the sweep table of a converted file
Series(kind, number, n, unit) ==
    [kind |-> kind, number |-> number, data |-> Ramp(n), conversion |-> 2,
     unit |-> unit, rate |-> 200]

SeriesPalette ==
    {Series("CurrentClampSeries", 1, MaxLen, S_V),
     Series("VoltageClampSeries", 1, 0, S_A),
     Series("IZeroClampSeries", 5, MaxLen, S_V),
     Series("CurrentClampStimulusSeries", 1, MaxLen, S_A),
     Series("VoltageClampStimulusSeries", 1, 0, S_V),
     Series("CurrentClampStimulusSeries", 5, 1, <<"x">>),
     Series("TimeSeries", 1, MaxLen, S_V),
     Series("VoltageClampSeries", 2, MaxLen, S_A)}

D_PatchMaster == S_PatchMaster \o <<" ", "v", "2">>
D_Clampex     == S_Clampex \o <<" ", "1", "0">>
D_other       == <<"M", "I", "E", "S">>

Nwb(description, series) ==
    [experiment_description |-> description,
     sweep_table |-> [n \in SweepNumbers |-> IF n = 1 THEN series ELSE None]]

DefaultNwb == Nwb(D_Clampex, None)

\* a Sweep_<n> epoch of a post-processed file
SweepEpoch(name, ns, nr, unit, idx_start, count) ==
    [name |-> name,
     stimulus |-> [data |-> Ramp(ns), conversion |-> 2, unit |-> unit,
                   idx_start |-> idx_start, count |-> count, rate |-> 200],
     response |-> [data |-> Ramp(nr), conversion |-> 3]]

N_Exp1 == <<"E", "x", "p", "e", "r", "i", "m", "e", "n", "t", "_", "1">>

Experiments ==
    {<<>>, <<[name |-> N_Exp1, stimulus |-> [count |-> 1]]>>}
      \cup {<<[name |-> N_Exp1, stimulus |-> [idx_start |-> a, count |-> c]]>> :
               a \in 0..1, c \in 0..(MaxLen + 1)}

Units == {Absent, Str(S_A), Str(S_V), Str(<<"x">>)}

File(entry, attr, acq, general, nwb, epochs, presentation) ==
    [nwb_version_entry |-> entry, nwb_version_attr |-> attr, acquisition |-> acq,
     general |-> general, nwb |-> nwb, epochs |-> epochs,
     presentation |-> presentation]

\* files that differ in their version markers and sweep names
VersionFiles ==
    {File(e, a, acq, NoGeneral, DefaultNwb, <<>>, <<>>) :
        e \in Markers, a \in Markers, acq \in Acquisitions}

\* post-processed files that differ in their provenance metadata
ProvenanceFiles ==
    {File(Str(M_NWB10), Absent, Group(<<PlainEntry(N_Sweep1)>>), g, DefaultNwb,
          <<SweepEpoch(N_Sweep1, MaxLen, MaxLen, Str(S_A), 0, MaxLen)>>, <<>>) :
        g \in Provenances}

\* converted files that differ in their source and in the sweep's series
ConvertedFiles ==
    {File(Absent, Str(M_20), Group(<<PlainEntry(N_index0)>>), NoGeneral,
          Nwb(d, s), <<>>, <<>>) :
        d \in {D_PatchMaster, D_Clampex, D_other},
        s \in {None} \cup {Arr(q) : q \in SeqsUpTo(SeriesPalette, MaxSeries)}}

GateProvenances ==
    {NoGeneral} \cup {General(Arr(<<S_version, v>>)) : v \in {P_10, P_11, P_20, P_09, P_1}}

\* post-processed files that differ in array lengths, unit and pipeline version
PipelineDataFiles ==
    {File(Str(M_NWB10), Absent, Group(<<PlainEntry(N_Sweep1)>>), g, DefaultNwb,
          <<SweepEpoch(N_Sweep1, ns, nr, u, 0, ns)>>, <<>>) :
        ns \in 0..MaxLen, nr \in 0..MaxLen, u \in Units, g \in GateProvenances}

\* post-processed files that differ in the sweep and experiment index ranges
PipelineRangeFiles ==
    {File(Str(M_NWB10), Absent, Group(<<PlainEntry(N_Sweep1)>>),
          General(Arr(<<S_version, P_11>>)), DefaultNwb,
          <<SweepEpoch(N_Sweep1, MaxLen, MaxLen, u, a, c)>> \o x, <<>>) :
        u \in {Str(S_A), Str(<<"x">>)}, a \in 0..1, c \in 0..MaxLen, x \in Experiments}

Ancestries == {{"TimeSeries", "PatchClampSeries", "CurrentClampSeries"},
               {"TimeSeries", "PatchClampSeries", "VoltageClampSeries"},
               {"TimeSeries"}}

\* raw acquisition files that differ in array lengths, unit and clamp mode
MiesFiles ==
    {File(Str(M_NWB10), Absent,
          Group(<<TsEntry(N_data1, [ancestry |-> anc],
                          [data |-> Ramp(nr), starting_time |-> [rate |-> 200]])>>),
          NoGeneral, DefaultNwb, <<>>,
          <<[name |-> N_dataDA1, data |-> Ramp(ns), unit |-> u]>>) :
        ns \in 0..MaxLen, nr \in 0..MaxLen, u \in Units, anc \in Ancestries}

C_code     == <<"C", "1">>
C_codeDA0  == <<"C", "1", "_", "D", "A", "_", "0">>
C_DA0      == <<"_", "D", "A", "_", "0">>
C_short    == <<"D", "A", "_", "0">>
C_mid      == <<"C", "_", "D", "A", "_", "0", "x">>

StimCodes == {Str(C_code), Str(C_codeDA0), Str(C_DA0), Str(C_short), Str(C_mid),
              Arr(<<C_codeDA0>>), Arr(<<>>)}

\* where a file may keep a sweep's stimulus code
StimCodeEntries(name) ==
    {TsEntry(name, [ancestry |-> {"TimeSeries"}], [data |-> Ramp(1)])}
      \cup {TsEntry(name, [ancestry |-> {"TimeSeries"}, stimulus_description |-> c],
                    [data |-> Ramp(1)]) : c \in StimCodes}
      \cup {TsEntry(name, [ancestry |-> {"TimeSeries"}],
                    [data |-> Ramp(1), stimulus_description |-> c]) : c \in StimCodes}
      \cup {TsEntry(name, [ancestry |-> {"TimeSeries"}],
                    [data |-> Ramp(1), aibs_stimulus_description |-> c]) : c \in StimCodes}

\* files of each dialect that differ in the stored stimulus code
StimCodeFiles ==
    {File(Absent, Str(M_20), Group(<<e>>), NoGeneral, DefaultNwb, <<>>, <<>>) :
        e \in StimCodeEntries(N_index0)}
      \cup {File(Str(M_NWB10), Absent, Group(<<e>>), NoGeneral, DefaultNwb, <<>>, <<>>) :
               e \in StimCodeEntries(N_Sweep1) \cup StimCodeEntries(N_data1)}

Files == VersionFiles \cup ProvenanceFiles \cup ConvertedFiles \cup PipelineDataFiles
           \cup PipelineRangeFiles \cup MiesFiles \cup StimCodeFiles

----------------------------------------------------------------------------
(* The state machine: a file, at most one reader made for it by the        *)
(* factory, and the outcome of the last public call.                       *)

Init ==
    /\ file \in Files
    /\ reader = "none"
    /\ op = "none"
    /\ arg = None
    /\ result = Ret(None)
    /\ handles = 0

\* a public call with outcome r
Call(name, a, r) ==
    /\ op' = name
    /\ arg' = a
    /\ result' = r
    /\ handles' = handles + r.opened - r.closed
    /\ UNCHANGED file

NameArgs == IF file.acquisition.t = "absent" THEN {N_bogus}
            ELSE {file.acquisition.v[i].name : i \in 1..Len(file.acquisition.v)}
                   \cup {N_bogus}

GetNwbVersion ==
    /\ Call("get_nwb_version", None, get_nwb_version(file))
    /\ UNCHANGED reader

CreateNwbReader ==
    LET r == create_nwb_reader(file) IN
    /\ Call("create_nwb_reader", None, r)
    /\ reader' = IF r.status = "ok" THEN r.value ELSE reader

GetSweepNames ==
    /\ reader # "none"
    /\ Call("get_sweep_names", None, get_sweep_names(file))
    /\ UNCHANGED reader

GetSweepAttrs ==
    /\ reader # "none"
    /\ \E name \in NameArgs :
          Call("get_sweep_attrs", Str(name), get_sweep_attrs(reader, file, name))
    /\ UNCHANGED reader

GetPipelineVersion ==
    /\ reader # "none"
    /\ Call("get_pipeline_version", None, get_pipeline_version(file))
    /\ UNCHANGED reader

GetStimCode ==
    /\ reader # "none"
    /\ \E name \in NameArgs :
          Call("get_stim_code", Str(name), get_stim_code(reader, file, name))
    /\ UNCHANGED reader

XGetSweepData ==
    /\ reader = "NwbXReader"
    /\ \E n \in SweepNumbers :
          Call("get_sweep_data", Num(n), NwbXReader_get_sweep_data(file, n))
    /\ UNCHANGED reader

PipelineGetSweepData ==
    /\ reader = "NwbPipelineReader"
    /\ \E n \in SweepNumbers :
          Call("get_sweep_data", Num(n), NwbPipelineReader_get_sweep_data(file, n))
    /\ UNCHANGED reader

MiesGetSweepData ==
    /\ reader = "NwbMiesReader"
    /\ \E n \in SweepNumbers :
          \E r \in NwbMiesReader_get_sweep_data(file, n) :
              Call("get_sweep_data", Num(n), r)
    /\ UNCHANGED reader

Next ==
    \/ GetNwbVersion
    \/ CreateNwbReader
    \/ GetSweepNames
    \/ GetSweepAttrs
    \/ GetPipelineVersion
    \/ GetStimCode
    \/ XGetSweepData
    \/ PipelineGetSweepData
    \/ MiesGetSweepData

Spec == Init /\ [][Next]_vars

----------------------------------------------------------------------------
(* Properties *)

IsCall(name) == op = name
Ok  == result.status = "ok"
Err == result.status = "err"

\* the part of a name before its first '_' (the whole name when it has none)
FirstToken(name) ==
    CHOOSE t \in {SubSeq(name, 1, k) : k \in 0..Len(name)} :
        /\ \A i \in 1..Len(t) : t[i] # "_"
        /\ Len(t) = Len(name) \/ name[Len(t) + 1] = "_"

HasFirstSweep == file.acquisition.t # "absent" /\ Len(file.acquisition.v) > 0

\* C1: create_nwb_reader picks its outcome from the detected major version and
\* the first token of the first sweep name: 2 gives NwbXReader; 1 with 'data'
\* gives NwbMiesReader; 1 with 'Sweep' gives NwbPipelineReader; 1 with any
\* other token raises UnknownDialect; unknown raises UnsupportedVersion; a
\* failing call returns no reader.
C1_FactorySelectsByTable ==
    IsCall("create_nwb_reader") =>
      LET v == get_nwb_version(file) IN
      v.status = "ok" =>
        /\ v.value.major = "2" => Ok /\ result.value = "NwbXReader"
        /\ (v.value.major = "1" /\ HasFirstSweep) =>
              LET tok == FirstToken(file.acquisition.v[1].name) IN
              /\ tok = S_data  => Ok /\ result.value = "NwbMiesReader"
              /\ tok = S_Sweep => Ok /\ result.value = "NwbPipelineReader"
              /\ tok \notin {S_data, S_Sweep} => Err /\ result.err = UnknownDialect
        /\ v.value.major = "None" => Err /\ result.err = UnsupportedVersion
        /\ Ok => reader = result.value

\* a version-1 file whose first sweep name starts with 'Sweepy_' is refused
C1_Witness ==
    /\ IsCall("create_nwb_reader")
    /\ result.err = UnknownDialect
    /\ HasFirstSweep
    /\ file.acquisition.v[1].name = N_Sweepy1
    /\ reader = "none"

IsSweepData(rd) == IsCall("get_sweep_data") /\ reader = rd

\* C2: every sweep record a reader returns has stimulus and response arrays
\* of equal length.
C2_EqualLengths ==
    (IsCall("get_sweep_data") /\ Ok) =>
        ALen(result.value.stimulus) = ALen(result.value.response)

\* C3: every sweep record a reader returns has an index_range (start, end)
\* with 0 <= start <= end < len(stimulus).
C3_IndexRangeWithinStimulus ==
    (IsCall("get_sweep_data") /\ Ok) =>
        /\ 0 <= result.value.index_range[1]
        /\ result.value.index_range[1] <= result.value.index_range[2]
        /\ result.value.index_range[2] < ALen(result.value.stimulus)

\* the converted file's series for the requested sweep, once the call has
\* got as far as the loop over them
XReachesLoop ==
    /\ IsSweepData("NwbXReader")
    /\ getRawDataSourceType(file.nwb.experiment_description) # "unknown"
    /\ file.nwb.sweep_table[arg.v].t = "arr"

XSeries == file.nwb.sweep_table[arg.v].v
XAbf    == getRawDataSourceType(file.nwb.experiment_description) = "abf"

ResponseBearing == {"VoltageClampSeries", "CurrentClampSeries", "IZeroClampSeries"}
StimulusBearing == {"VoltageClampStimulusSeries", "CurrentClampStimulusSeries"}

Retained(i) == ~(XAbf /\ XSeries[i].number = 5)

RetainedOf(kinds) ==
    {i \in 1..Len(XSeries) : Retained(i) /\ XSeries[i].kind \in kinds}

\* what series i is refused with when the loop gets to it ("" when accepted
\* or skipped)
Fault(i) ==
    LET s == XSeries[i] IN
    IF XAbf /\ s.number \notin {1, 5} THEN UnexpectedChannel
    ELSE IF ~Retained(i) THEN ""
    ELSE IF s.kind \in ResponseBearing
    THEN IF \E j \in RetainedOf(ResponseBearing) : j < i
         THEN DuplicateResponseSeries ELSE ""
    ELSE IF s.kind \in StimulusBearing
    THEN IF \E j \in RetainedOf(StimulusBearing) : j < i
         THEN DuplicateStimulusSeries
         ELSE IF Len(s.unit) = 0 \/ s.unit[1] \notin {"A", "V"}
         THEN UnrecognizedUnit ELSE ""
    ELSE UnexpectedSeriesType

FileWithoutChannel5 ==
    [file EXCEPT !.nwb.sweep_table[arg.v] =
        Arr(SelectSeq(XSeries, LAMBDA s : s.number # 5))]

\* C4: in NwbXReader.get_sweep_data, in whatever order the sweep's series
\* come: series on channel 5 of an 'abf' source are skipped and leave the
\* outcome as it is without them; the call fails at the first series the
\* loop refuses, a second retained response-bearing series with
\* DuplicateResponseSeries, a second retained stimulus-bearing series with
\* DuplicateStimulusSeries, a retained series of another kind with
\* UnexpectedSeriesType; so a returned record means exactly one retained
\* response-bearing and exactly one retained stimulus-bearing series.
C4_SeriesLatchedOnce ==
    XReachesLoop =>
      /\ \A i \in 1..Len(XSeries) :
            (Fault(i) # "" /\ \A j \in 1..(i - 1) : Fault(j) = "")
               => Err /\ result.err = Fault(i)
      /\ Ok => /\ Cardinality(RetainedOf(ResponseBearing)) = 1
               /\ Cardinality(RetainedOf(StimulusBearing)) = 1
               /\ \A i \in 1..Len(XSeries) :
                     Retained(i) => XSeries[i].kind \in ResponseBearing \cup StimulusBearing
      /\ XAbf => result = NwbXReader_get_sweep_data(FileWithoutChannel5, arg.v)

\* an 'abf' sweep with a skipped channel-5 series and two response series
C4_Witness ==
    /\ XReachesLoop
    /\ XAbf
    /\ \E i \in 1..Len(XSeries) : ~Retained(i)
    /\ Cardinality(RetainedOf(ResponseBearing)) = 2
    /\ result.err = DuplicateResponseSeries

\* the Sweep_<n> epoch the post-processed reader was asked for
PipelineSweepName == S_SweepU \o DecStr(arg.v)
PipelineSweep     == Entry(file.epochs, PipelineSweepName)

\* C5: NwbPipelineReader.get_sweep_data multiplies the stored stimulus and
\* response samples by their conversion factors if and only if the pipeline
\* version (major, minor) has major > 1 or (major = 1 and minor > 0); for
\* (1, 0) and below, the default (0, 0) included, the stored samples are
\* returned unconverted.
C5_ConversionGatedByVersion ==
    (IsSweepData("NwbPipelineReader") /\ Ok) =>
      LET pv  == get_pipeline_version(file).value
          stm == PipelineSweep.stimulus
          rsp == PipelineSweep.response
          newer == pv[1] > 1 \/ (pv[1] = 1 /\ pv[2] > 0)
      IN  /\ result.value.stimulus.m =
                [i \in 1..Len(stm.data.m) |->
                    IF newer THEN stm.data.m[i] * stm.conversion ELSE stm.data.m[i]]
          /\ result.value.response.m =
                [i \in 1..Len(rsp.data.m) |->
                    IF newer THEN rsp.data.m[i] * rsp.conversion ELSE rsp.data.m[i]]

\* a version (1, 0) file whose samples come back as stored
C5_Witness ==
    /\ IsSweepData("NwbPipelineReader")
    /\ Ok
    /\ get_pipeline_version(file).value = <<1, 0>>
    /\ Len(PipelineSweep.stimulus.data.m) > 0
    /\ PipelineSweep.stimulus.conversion # 1
    /\ result.value.stimulus.m = PipelineSweep.stimulus.data.m

\* C6: every public call closes every file handle it opened before it
\* returns or raises, so no handle is open between two public calls.
C6_NoHandleLeft ==
    /\ handles = 0
    /\ op # "none" => result.opened >= 1 /\ result.closed = result.opened

\* a call that fails with two handles open at once (the sweep's and the
\* nested get_pipeline_version's)
C6_Witness ==
    /\ IsSweepData("NwbPipelineReader")
    /\ Err
    /\ result.opened = 2
    /\ handles = 0

\* the provenance has a 'version' key (an even position, counting from 0)
\* followed by a value '<major>.<minor>[...]' with decimal major and minor
WellFormedProvenance ==
    /\ file.general.t # "absent"
    /\ file.general.generated_by.t # "absent"
    /\ LET info == file.general.generated_by.v IN
       \E i \in 1..(Len(info) - 1) :
          /\ i % 2 = 1
          /\ info[i] = S_version
          /\ LET toks == Split(info[i + 1], ".") IN
             Len(toks) >= 2 /\ IsInt(toks[1]) /\ IsInt(toks[2])

\* C7: get_pipeline_version never raises; it returns an integer pair, and
\* the pair is (0, 0) unless a well-formed '<major>.<minor>' value follows
\* a 'version' key.
C7_PipelineVersionNeverRaises ==
    IsCall("get_pipeline_version") =>
      /\ Ok
      /\ ~WellFormedProvenance => result.value = <<0, 0>>

\* the marker string a stored value stands for, if it is one
MarkerMatches(x, prefix) ==
    \/ x.t = "str" /\ StartsWith(x.v, prefix)
    \/ x.t = "arr" /\ Len(x.v) > 0 /\ StartsWith(x.v[1], prefix)

\* C8: get_nwb_version never raises on an openable file; major is 1 when the
\* named entry matches 'NWB-1*', 2 when there is no entry and the attribute
\* matches '2*', and unknown otherwise.
C8_VersionDetectNeverRaises ==
    IsCall("get_nwb_version") =>
      /\ Ok
      /\ result.value.major =
           IF MarkerMatches(file.nwb_version_entry, S_NWB1) THEN "1"
           ELSE IF file.nwb_version_entry.t = "absent"
                   /\ MarkerMatches(file.nwb_version_attr, S_2) THEN "2"
           ELSE "None"

\* the call has got as far as the index ranges: the sweep exists, the
\* pipeline version was read and the unit is a known one
PipelineReachesRanges ==
    /\ IsSweepData("NwbPipelineReader")
    /\ HasEntry(file.epochs, PipelineSweepName)
    /\ get_pipeline_version(file).status = "ok"
    /\ PipelineSweep.stimulus.unit.t # "absent"
    /\ PipelineSweep.stimulus.unit.v[1] \in {"A", "V"}

ExperimentName == S_ExpU \o DecStr(arg.v)
HasExperiment  == HasEntry(file.epochs, ExperimentName)
Experiment     == Entry(file.epochs, ExperimentName).stimulus

\* C9: in NwbPipelineReader.get_sweep_data for a sweep whose own start index
\* is 0, the returned index_range is (exp_start, exp_start + exp_count - 1)
\* of the Experiment_<n> entry when there is one, and the sweep's own
\* (start, start + count - 1) when there is none, which is no failure; when
\* the sweep's start index is not 0 the call fails, with InvalidSweepRange,
\* with or without an experiment entry.
C9_ExperimentRangeOrSweepRange ==
    /\ PipelineReachesRanges =>
         LET start == PipelineSweep.stimulus.idx_start
             count == PipelineSweep.stimulus.count
         IN  /\ (start = 0 /\ HasExperiment /\ DOMAIN Experiment = {"idx_start", "count"})
                   => Ok /\ result.value.index_range =
                              <<Experiment.idx_start,
                                Experiment.idx_start + Experiment.count - 1>>
             /\ (start = 0 /\ ~HasExperiment)
                   => Ok /\ result.value.index_range = <<start, start + count - 1>>
             /\ start # 0 => Err /\ result.err = InvalidSweepRange
    /\ (IsSweepData("NwbPipelineReader") /\ HasEntry(file.epochs, PipelineSweepName)
          /\ PipelineSweep.stimulus.idx_start # 0) => Err

\* a sweep with an experiment whose range is returned in place of its own
C9_Witness ==
    /\ PipelineReachesRanges
    /\ HasExperiment
    /\ Ok
    /\ result.value.index_range = <<1, 2>>
    /\ PipelineSweep.stimulus.idx_start = 0
    /\ PipelineSweep.stimulus.count = 1

\* the stimulus code stored for the sweep the reader was asked about
StoredStimCode ==
    LET e   == Entry(file.acquisition.v, arg.v)
        raw == IF reader = "NwbPipelineReader"
               THEN e.children.aibs_stimulus_description
               ELSE IF "stimulus_description" \in DOMAIN e.children
               THEN e.children.stimulus_description
               ELSE e.attrs.stimulus_description
    IN  IF raw.t = "arr" THEN raw.v[1] ELSE raw.v

\* C10: for every reader and sweep name, get_stim_code returns the stored
\* stimulus code without its trailing '_DA_0' when it ends with '_DA_0', and
\* the stored code as it is otherwise.
C10_StimCodeSuffixTrimmed ==
    (IsCall("get_stim_code") /\ Ok) =>
      LET code == StoredStimCode
          ends == Len(code) >= 5 /\ SubSeq(code, Len(code) - 4, Len(code)) = S_DA_0
      IN  /\ result.value.t = "str"
          /\ result.value.v = IF ends THEN SubSeq(code, 1, Len(code) - 5) ELSE code

====
